---- MODULE Spec2Model ----
(***************************************************************************)
(* rangicus/manga-checker.                                                 *)
(*                                                                         *)
(* src/index.ts holds two units: the pipeline (lines 1-233: validation,    *)
(* the two scrapers, getConfig, main) and the Anilist client (lines        *)
(* 235-378: isAxiosError, sleep, class Anilist with checkTimeBuffer, gql   *)
(* and getUserManga).                                                      *)
(*                                                                         *)
(*   SpecGql  the Anilist client under a caller that issues gql and        *)
(*            getUserManga calls one after the other, with a clock.        *)
(*   Spec     main(): getConfig, the scrape loop, the progress fetch,      *)
(*            classification, the two sorts and the report.                *)
(***************************************************************************)
EXTENDS Integers, Sequences, FiniteSets, TLC

VARIABLES
    now,          \* the clock Date.now() reads, in ms
    LAST_CALL,    \* Anilist.LAST_CALL
    calls,        \* per caller: the activation of gql / getUserManga
    requests,     \* the HTTP requests issued to graphql.anilist.co, in order
    artifact,     \* number of writes of anilistUnknownError.json
    ncalls,       \* gql / getUserManga invocations started so far
    callers       \* the callers that share the client instance

cvars == <<now, LAST_CALL, calls, requests, artifact, ncalls, callers>>

VARIABLES
    mpc,                \* where main() is
    config,             \* main's config, manga sorted, once line 190 is through
    i,                  \* the scrape loop's index (0-based, as in the code)
    results,            \* main's results
    mediaListCollection, \* main's mediaListCollection: its lists
    completedResults,   \* main's completedResults
    behindResults,      \* main's behindResults
    out,                \* the lines written to the console, in order
    netlog,             \* the network calls main has made, in order
    err                 \* the error main() ended with, "" for none

mvars == <<mpc, config, i, results, mediaListCollection, completedResults, behindResults,
           out, netlog, err>>

VARIABLES
    scrapes             \* the calls of scrapeManga made by a caller other than
                        \* main, in order: the series, where the call is, the
                        \* GETs it has issued and what it ended with

svars == <<scrapes>>

vars == <<cvars, mvars, svars>>

----------------------------------------------------------------------------
(* Bounds of the model. *)

MaxTime == 3000
MaxRequests == 3
MaxCalls == 2
MaxSeries == 3
MaxLists == 2
MaxEntries == 2
MaxScrapes == 2

----------------------------------------------------------------------------
(* JavaScript numbers: NaN, a non-negative integer up to 2^31 - 1, or Big,  *)
(* a number above that (the only thing the program does with such a number *)
(* is hand it to setTimeout, which treats all of them alike).              *)

\* The largest delay setTimeout honours, 2^31 - 1 ms; a delay above it,
\* below 1 or NaN is replaced by 1 ms.
TIMEOUT_MAX == 2147483647

Num(n) == [nan |-> FALSE, big |-> FALSE, n |-> n]
NaN == [nan |-> TRUE, big |-> FALSE, n |-> 0]
Big == [nan |-> FALSE, big |-> TRUE, n |-> 0]

\* a * b for non-negative a and b.
JsMul(a, b) ==
    IF a.nan \/ b.nan THEN NaN
    ELSE IF a.big \/ b.big THEN Big
    ELSE IF a.n # 0 /\ b.n > TIMEOUT_MAX \div a.n THEN Big
    ELSE Num(a.n * b.n)

Digits == <<"0", "1", "2", "3", "4", "5", "6", "7", "8", "9">>

IsDigit(ch) == \E d \in 1..Len(Digits) : Digits[d] = ch

DigitVal(ch) == (CHOOSE d \in 1..Len(Digits) : Digits[d] = ch) - 1

RECURSIVE DecVal(_)
DecVal(s) ==
    IF s = <<>> THEN 0
    ELSE DecVal(SubSeq(s, 1, Len(s) - 1)) * 10 + DigitVal(s[Len(s)])

\* Number.parseInt on a string given as its characters: the value of the
\* longest prefix of decimal digits, NaN when there is none.  (The strings
\* of the model carry no sign, whitespace or radix prefix.)
ParseInt(s) ==
    LET k == CHOOSE m \in 0..Len(s) :
                 /\ \A j \in 1..m : IsDigit(s[j])
                 /\ (m < Len(s) => ~IsDigit(s[m + 1]))
    IN  IF k = 0 THEN NaN ELSE Num(DecVal(SubSeq(s, 1, k)))

----------------------------------------------------------------------------
(* The Anilist client. *)

TIME_BUFFER == 1000

\* sleep(ms), lines 270-274: the delay after which the timer may fire.
TimerDelay(ms) ==
    IF ms.nan \/ ms.big \/ ms.n < 1 \/ ms.n > TIMEOUT_MAX THEN 1 ELSE ms.n

\* The instant a timer set at t with the given delay is due; every instant
\* past the model's horizon is the same instant MaxTime + 1.
DueAt(t, delay) == IF delay > MaxTime - t THEN MaxTime + 1 ELSE t + delay

\* The variables argument: undefined, or an object (a set of key/value pairs).
Undefined == [def |-> FALSE, fields |-> {}]
Obj(fields) == [def |-> TRUE, fields |-> fields]

userName == "rangicus"

UserMangaQuery == "MediaListCollection"

Queries == {"q1", "q2"}
VariablesIn == {Undefined, Obj({<<"userName", "u1">>})}

\* The value of the retry-after header of a 429 response.
NoHeader == [present |-> FALSE, isString |-> FALSE, text |-> <<>>]
NonStringHeader == [present |-> TRUE, isString |-> FALSE, text |-> <<>>]
StringHeader(s) == [present |-> TRUE, isString |-> TRUE, text |-> s]

HeaderTexts ==
    { <<"0">>, <<"1">>, <<"x">>,
      <<"2", "1", "4", "7", "4", "8", "3">>,
      <<"2", "1", "4", "7", "4", "8", "4">> }

RetryAfterHeaders ==
    {NoHeader, NonStringHeader} \cup {StringHeader(s) : s \in HeaderTexts}

\* What the HTTP request ends with: a response, or something thrown.
\*   ok      a 2xx response carrying data
\*   http    an AxiosError with a response of the given status
\*   network an AxiosError with no response (no status)
\*   other   a thrown value that is not an AxiosError
Statuses == {429, 404, 500}
Datas == {"d1", "d2"}

Resp(kind, status, hdr, data) ==
    [kind |-> kind, status |-> status, retryAfter |-> hdr, data |-> data]

NoResp == Resp("none", 0, NoHeader, "")

Responses ==
    {Resp("ok", 200, NoHeader, d) : d \in Datas}
    \cup {Resp("http", 429, h, "") : h \in RetryAfterHeaders}
    \cup {Resp("http", s, NoHeader, "") : s \in Statuses \ {429}}
    \cup {Resp("network", 0, NoHeader, ""), Resp("other", 0, NoHeader, "")}

isAxiosError(resp) == resp.kind \in {"http", "network"}

\* What the call ended with.
NoOutcome == [kind |-> "none", msg |-> "", status |-> 0, data |-> ""]
Returned(d) == [kind |-> "ok", msg |-> "", status |-> 0, data |-> d]
Thrown(msg, status) == [kind |-> "error", msg |-> msg, status |-> status, data |-> ""]

NoSleep == [slept |-> FALSE, ms |-> NaN]
Slept(ms) == [slept |-> TRUE, ms |-> ms]

IdleCall ==
    [pc |-> "idle", via |-> "", query |-> "", variables |-> Undefined,
     origQuery |-> "", origVariables |-> Undefined, callNo |-> 0,
     seenLast |-> 0, wakeAt |-> 0, sent |-> 0, n429 |-> 0,
     lastResp |-> NoResp, respAt |-> 0, retrySleep |-> NoSleep,
     outcome |-> NoOutcome, endAt |-> 0, endSent |-> 0, wrote |-> FALSE]

----------------------------------------------------------------------------
(* checkTimeBuffer, lines 298-307: the time still to wait, 0 for none. *)

\* Line 301 returning whatever the time since the last call.
TimeDifNone(t, last) == 0

\* Line 301 with the comparison turned round.
TimeDifBroken(t, last) ==
    LET timeSince == t - last
    IN  IF timeSince <= TIME_BUFFER THEN 0 ELSE TIME_BUFFER - timeSince

\* Lines 299-303.
TimeDif(t, last) ==
    LET timeSince == t - last
    IN  IF timeSince >= TIME_BUFFER THEN 0 ELSE TIME_BUFFER - timeSince

\* gql, line 310.
NormaliseVariables(v) == IF ~v.def THEN Obj({}) ELSE v

\* Line 339 calling gql(query) without the variables.
RetryArgsDropVariables(call) == [query |-> call.query, variables |-> Obj({})]

\* The arguments gql hands to its recursive call, line 339.
RetryArgs(call) == [query |-> call.query, variables |-> call.variables]

\* Entering gql(query, variables): lines 309-312.
EnterGql(call, q, v) ==
    [call EXCEPT !.pc = "check", !.query = q,
                 !.variables = NormaliseVariables(v)]

\* A caller starts gql(q, v).
GqlCall(c, q, v) ==
    /\ calls[c].pc \in {"idle", "returned", "failed"}
    /\ ncalls < MaxCalls
    /\ ncalls' = ncalls + 1
    /\ calls' = [calls EXCEPT ![c] =
                    EnterGql([IdleCall EXCEPT !.via = "gql", !.origQuery = q,
                                              !.origVariables = v,
                                              !.callNo = ncalls + 1], q, v)]
    /\ UNCHANGED <<now, LAST_CALL, requests, artifact, callers, mvars, svars>>

\* A caller starts getUserManga(): line 357 is its own checkTimeBuffer.
GetUserMangaCall(c) ==
    /\ calls[c].pc \in {"idle", "returned", "failed"}
    /\ ncalls < MaxCalls
    /\ ncalls' = ncalls + 1
    /\ calls' = [calls EXCEPT ![c] =
                    [IdleCall EXCEPT !.pc = "umCheck", !.via = "getUserManga",
                                     !.origQuery = UserMangaQuery,
                                     !.origVariables = Obj({<<"userName", userName>>}),
                                     !.callNo = ncalls + 1]]
    /\ UNCHANGED <<now, LAST_CALL, requests, artifact, callers, mvars, svars>>

\* getUserManga, lines 359-373: the call of gql once line 357 is through.
UserMangaGql(call) ==
    EnterGql(call, UserMangaQuery, Obj({<<"userName", userName>>}))

\* checkTimeBuffer at line 312 (pc check) or line 357 (pc umCheck).
checkTimeBuffer(c) ==
    LET call == calls[c]
        timeDif == TimeDif(now, LAST_CALL)
    IN  /\ call.pc \in {"check", "umCheck"}
        /\ calls' = [calls EXCEPT ![c] =
              IF timeDif = 0
              THEN IF call.pc = "check"
                   THEN [call EXCEPT !.pc = "ready", !.seenLast = LAST_CALL]
                   ELSE UserMangaGql([call EXCEPT !.seenLast = LAST_CALL])
              ELSE [call EXCEPT
                      !.pc = IF call.pc = "check" THEN "bufSleep" ELSE "umSleep",
                      !.seenLast = LAST_CALL,
                      !.wakeAt = DueAt(now, TimerDelay(Num(timeDif)))]]
        /\ UNCHANGED <<now, LAST_CALL, requests, artifact, ncalls, callers, mvars, svars>>

\* A sleep ends: the timer fires no earlier than its delay.
Wake(c) ==
    LET call == calls[c]
    IN  /\ call.pc \in {"bufSleep", "umSleep", "retrySleep"}
        /\ now >= call.wakeAt
        /\ calls' = [calls EXCEPT ![c] =
              CASE call.pc = "bufSleep" -> [call EXCEPT !.pc = "ready"]
                [] call.pc = "umSleep" -> UserMangaGql(call)
                [] call.pc = "retrySleep" ->
                     LET a == RetryArgs(call)
                     IN  EnterGql(call, a.query, a.variables)]
        /\ UNCHANGED <<now, LAST_CALL, requests, artifact, ncalls, callers, mvars, svars>>

\* Lines 315-320: LAST_CALL is stamped and the request goes out.
Send(c) ==
    LET call == calls[c]
    IN  /\ call.pc = "ready"
        /\ Len(requests) < MaxRequests
        /\ LAST_CALL' = now
        /\ requests' = Append(requests,
              [t |-> now, caller |-> c, callNo |-> call.callNo,
               attempt |-> call.sent + 1,
               query |-> call.query, variables |-> call.variables,
               origQuery |-> call.origQuery,
               origVariables |-> call.origVariables,
               seenLast |-> call.seenLast,
               after |-> call.lastResp, afterAt |-> call.respAt,
               retrySleep |-> call.retrySleep])
        /\ calls' = [calls EXCEPT ![c] =
                        [call EXCEPT !.pc = "inflight", !.sent = call.sent + 1]]
        /\ UNCHANGED <<now, artifact, ncalls, callers, mvars, svars>>

\* Line 331 without its test.
HasRetryAfterUnchecked(hdr) == TRUE

\* Line 331: the retry-after header is there and is a string.
HasRetryAfter(hdr) == hdr.present /\ hdr.isString

\* Lines 330-339: wait as the retry-after header says, if it says, and call
\* gql again.
RetryAfter429(call, hdr, t) ==
    IF HasRetryAfter(hdr)
    THEN LET seconds == ParseInt(hdr.text)
             ms == JsMul(seconds, Num(1000))
         IN  [call EXCEPT !.pc = "retrySleep",
                          !.n429 = call.n429 + 1,
                          !.retrySleep = Slept(ms),
                          !.wakeAt = DueAt(t, TimerDelay(ms))]
    ELSE LET a == RetryArgs(call)
         IN  EnterGql([call EXCEPT !.n429 = call.n429 + 1,
                                   !.retrySleep = NoSleep],
                      a.query, a.variables)

Fail(call, t, msg, status) ==
    [call EXCEPT !.pc = "failed", !.endAt = t, !.endSent = call.sent,
                 !.outcome = Thrown(msg, status)]

\* Lines 327-340 with a ceiling on the retries.
On429Capped(call, resp, t) ==
    IF call.n429 >= 1 THEN Fail(call, t, "Axios Error", resp.status)
    ELSE RetryAfter429(call, resp.retryAfter, t)

\* Lines 327-340: status 429.
On429(call, resp, t) == RetryAfter429(call, resp.retryAfter, t)

\* Lines 341-342 retrying a 5xx status as if it were 429.
OnAxiosErrorRetry5xx(call, status, t) ==
    IF status >= 500 THEN RetryAfter429(call, NoHeader, t)
    ELSE IF status # 0 THEN Fail(call, t, "Axios Error", status)
    ELSE Fail(call, t, "Axios Error: Unknown", 0)

\* Lines 341-342: an AxiosError whose status is not 429; status 0 stands
\* for no status (error.response?.status undefined).
OnAxiosError(call, status, t) ==
    IF status # 0 THEN Fail(call, t, "Axios Error", status)
    ELSE Fail(call, t, "Axios Error: Unknown", 0)

\* Line 345 reached whatever the error is.
WritesArtifactAlways(resp) == TRUE

\* Line 345 is reached only past the isAxiosError block of lines 324-343,
\* every branch of which leaves gql or calls it again.
WritesArtifact(resp) == ~isAxiosError(resp)

\* The catch block, lines 323-347, for a request that ended with resp at
\* time t: the call's record at the next await or throw.
gqlCatch(call, resp, t) ==
    LET status == IF resp.kind = "http" THEN resp.status ELSE 0
        next == IF isAxiosError(resp)
                THEN IF status = 429 THEN On429(call, resp, t)
                     ELSE OnAxiosError(call, status, t)
                ELSE Fail(call, t, "Unknown error.", 0)
    IN  [next EXCEPT !.wrote = call.wrote \/ WritesArtifact(resp)]

\* The request of caller c ends with resp: lines 322-347.
Respond(c, resp) ==
    LET call == [calls[c] EXCEPT !.lastResp = resp, !.respAt = now]
    IN  /\ calls[c].pc = "inflight"
        /\ calls' = [calls EXCEPT ![c] =
              IF resp.kind = "ok"
              THEN [call EXCEPT !.pc = "returned", !.endAt = now,
                                !.endSent = call.sent,
                                !.outcome = Returned(resp.data)]
              ELSE gqlCatch(call, resp, now)]
        /\ artifact' = IF resp.kind # "ok" /\ WritesArtifact(resp)
                       THEN artifact + 1 ELSE artifact
        /\ UNCHANGED <<now, LAST_CALL, requests, ncalls, callers, mvars, svars>>

\* Time passes.
Tick(d) ==
    /\ now + d <= MaxTime
    /\ now' = now + d
    /\ UNCHANGED <<LAST_CALL, calls, requests, artifact, ncalls, callers, mvars, svars>>

\* Time passes up to the instant a pending timer is due.
TickToTimer(c) ==
    /\ calls[c].pc \in {"bufSleep", "umSleep", "retrySleep"}
    /\ calls[c].wakeAt > now
    /\ calls[c].wakeAt <= MaxTime
    /\ now' = calls[c].wakeAt
    /\ UNCHANGED <<LAST_CALL, calls, requests, artifact, ncalls, callers, mvars, svars>>

----------------------------------------------------------------------------
(* The pipeline: values. *)

\* A JSON value of config.json, as far as typeof tells them apart.
JStr(x) == [type |-> "string", s |-> x, n |-> 0]
JNum(x) == [type |-> "number", s |-> "", n |-> x]
JUndef == [type |-> "undefined", s |-> "", n |-> 0]

RawManga(name, anilistId, siteId, provider) ==
    [name |-> name, anilistId |-> anilistId, siteId |-> siteId,
     provider |-> provider]

RawConfig(user, isArray, manga) ==
    [anilistUsername |-> user, mangaIsArray |-> isArray, manga |-> manga]

NoConfig == RawConfig(JUndef, FALSE, <<>>)

\* Lines 75-83.
isMangaProvider(x) == x.type = "string" /\ x.s \in {"viz", "mangadex"}

\* Lines 85-94.
isManga(x) ==
    /\ x.name.type = "string"
    /\ x.anilistId.type = "number"
    /\ x.siteId.type = "string"
    /\ isMangaProvider(x.provider)

\* Lines 96-109.
isConfigData(x) ==
    /\ x.anilistUsername.type = "string"
    /\ x.mangaIsArray
    /\ \A k \in 1..Len(x.manga) : isManga(x.manga[k])

\* The series the configurations of the model are made of.
Catalog ==
    { RawManga(JStr("B"), JNum(41), JStr("s1"), JStr("viz")),
      RawManga(JStr("a"), JNum(42), JStr("s2"), JStr("mangadex")),
      RawManga(JStr("c"), JNum(43), JStr("s3"), JStr("viz")) }

\* The sequences of at most n distinct members of S.
RECURSIVE SeqsOf(_, _)
SeqsOf(S, n) ==
    IF n = 0 THEN {<<>>}
    ELSE LET shorter == SeqsOf(S, n - 1)
         IN  shorter \cup
             {Append(q, x) : q \in {r \in shorter : Len(r) = n - 1},
                             x \in S}

Distinct(q) == \A j, k \in 1..Len(q) : j # k => q[j] # q[k]

ValidConfigs ==
    {RawConfig(JStr("u1"), TRUE, q) :
        q \in {r \in SeqsOf(Catalog, MaxSeries) : Distinct(r)}}

InvalidConfigs ==
    { RawConfig(JNum(7), TRUE, <<>>),
      RawConfig(JUndef, TRUE, <<>>),
      RawConfig(JStr("u1"), FALSE, <<>>),
      RawConfig(JStr("u1"), TRUE,
                <<RawManga(JStr("a"), JNum(42), JStr("s2"), JStr("webtoon"))>>),
      RawConfig(JStr("u1"), TRUE,
                <<RawManga(JNum(1), JNum(42), JStr("s2"), JStr("mangadex"))>>),
      RawConfig(JStr("u1"), TRUE,
                <<RawManga(JStr("a"), JStr("42"), JStr("s2"), JStr("mangadex"))>>),
      RawConfig(JStr("u1"), TRUE,
                <<RawManga(JStr("a"), JNum(42), JUndef, JStr("mangadex"))>>),
      RawConfig(JStr("u1"), TRUE,
                <<RawManga(JStr("B"), JNum(41), JStr("s1"), JStr("viz")),
                  RawManga(JStr("a"), JNum(42), JStr("s2"), JUndef)>>) }

\* Configurations whose siteId is the empty string.
EmptySiteIdConfigs ==
    { RawConfig(JStr("u1"), TRUE,
                <<RawManga(JStr("a"), JNum(42), JStr(""), JStr("mangadex"))>>),
      RawConfig(JStr("u1"), TRUE,
                <<RawManga(JStr("c"), JNum(43), JStr("s3"), JStr("viz")),
                  RawManga(JStr("B"), JNum(41), JStr(""), JStr("viz"))>>) }

RawConfigs == ValidConfigs \cup InvalidConfigs \cup EmptySiteIdConfigs

\* String.prototype.localeCompare on the names of the model: the collation
\* puts "a" before "B" before "c".
Collation == <<"a", "B", "c">>

RankIn(order, x) == CHOOSE k \in 1..Len(order) : order[k] = x

localeCompare(x, y) == RankIn(Collation, x) - RankIn(Collation, y)

\* new Date(text).getTime() on the date texts of the model; any other text
\* gives an Invalid Date, whose time is NaN.
DateTime(text) ==
    CASE text = "2024-01-01" -> Num(1)
      [] text = "2024-01-02" -> Num(2)
      [] text = "2024-01-03" -> Num(3)
      [] OTHER -> NaN

\* chapterString.replace(/\D/g, ``), line 128.
StripNonDigits(s) == SelectSeq(s, IsDigit)

\* What a scraper's GET comes back with.  fetched: the GET succeeded;
\* count: the a[id^=ch] anchors of the page, or the chapters of the feed;
\* the other fields are those of the first one.
Page(fetched, count, releaseText, chapterText, hasHref, ref) ==
    [fetched |-> fetched, count |-> count, releaseText |-> releaseText,
     chapterText |-> chapterText, hasHref |-> hasHref, ref |-> ref]

VizPages ==
    { Page(FALSE, 0, "", <<>>, FALSE, ""),
      Page(TRUE, 0, "", <<>>, FALSE, ""),
      Page(TRUE, 1, "2024-01-01", <<"C", "h", ".", " ", "2">>, TRUE, "/c2"),
      Page(TRUE, 2, "2024-01-03", <<"C", "h", ".", " ", "1">>, TRUE, "/c1"),
      Page(TRUE, 1, "", <<"C", "h", ".", " ", "2">>, TRUE, "/c2"),
      Page(TRUE, 1, "2024-01-02", <<"N", "e", "w">>, TRUE, "/c3"),
      Page(TRUE, 1, "2024-01-02", <<"C", "h", ".", " ", "2">>, FALSE, "") }

\* A feed item's chapter is a string, or null (parseInt reads "null").
DexFeeds ==
    { Page(FALSE, 0, "", <<>>, TRUE, ""),
      Page(TRUE, 0, "", <<>>, TRUE, ""),
      Page(TRUE, 1, "2024-01-02", <<"1">>, TRUE, "id1"),
      Page(TRUE, 2, "2024-01-03", <<"2">>, TRUE, "id2"),
      Page(TRUE, 1, "2024-01-01", <<"n", "u", "l", "l">>, TRUE, "id3") }

PagesOf(provider) == IF provider = "viz" THEN VizPages ELSE DexFeeds

\* A scraper's outcome: a Result, or an error thrown.
Result(manga, chapter, release, url) ==
    [manga |-> manga, chapter |-> chapter, release |-> release, url |-> url]

NoResult == Result(RawManga(JUndef, JUndef, JUndef, JUndef), NaN, NaN, <<>>)

\* The fields of the first chapter a scraper reads: lines 124-130, 157-164.
ChapterFields == {"release", "chapter", "url"}

\* parsed: the fields read by the time the scraper returns or throws.
Scraped(r) == [ok |-> TRUE, result |-> r, msg |-> "", parsed |-> ChapterFields]
ScrapeThrows(msg) == [ok |-> FALSE, result |-> NoResult, msg |-> msg, parsed |-> {}]

\* Lines 113-142 without the test of line 119: the first anchor is read
\* whether or not there is one.
scrapeVizUnguarded(manga, page) ==
    IF ~page.fetched THEN ScrapeThrows("AxiosError")
    ELSE LET release == DateTime(page.releaseText)
             chapter == ParseInt(StripNonDigits(page.chapterText))
         IN  IF ~page.hasHref
             THEN [ScrapeThrows("Couldn't get chapter link.")
                      EXCEPT !.parsed = ChapterFields]
             ELSE Scraped(Result(manga, chapter, release,
                                 <<"https://www.viz.com", page.ref>>))

\* Lines 113-142.
scrapeViz(manga, page) ==
    IF ~page.fetched THEN ScrapeThrows("AxiosError")
    ELSE IF page.count = 0 THEN ScrapeThrows("Couldn't find chapters.")
    ELSE LET release == DateTime(page.releaseText)
             chapter == ParseInt(StripNonDigits(page.chapterText))
         IN  IF ~page.hasHref
             THEN [ScrapeThrows("Couldn't get chapter link.")
                      EXCEPT !.parsed = ChapterFields]
             ELSE Scraped(Result(manga, chapter, release,
                                 <<"https://www.viz.com", page.ref>>))

\* Lines 144-166.
scrapeMangadex(manga, page) ==
    IF ~page.fetched THEN ScrapeThrows("AxiosError")
    ELSE IF page.count = 0 THEN ScrapeThrows("Couldn't find chapters.")
    ELSE Scraped(Result(manga, ParseInt(page.chapterText),
                        DateTime(page.releaseText),
                        <<"https://mangadex.org/chapter/", page.ref>>))

\* Lines 168-172 with the GET made before the provider is looked at.
DispatchesAll(manga) == TRUE

\* Lines 168-172: whether scrapeManga reaches a scraper, and so the network.
Dispatches(manga) == manga.provider.s \in {"viz", "mangadex"}

scrapeManga(manga, page) ==
    IF manga.provider.s = "viz" THEN scrapeViz(manga, page)
    ELSE IF manga.provider.s = "mangadex" THEN scrapeMangadex(manga, page)
    ELSE ScrapeThrows("Unknown provider.")

\* a >= b and a < b on JavaScript numbers: false when either is NaN.
JsGE(a, b) == ~a.nan /\ ~b.nan /\ a.n >= b.n
JsLT(a, b) == ~a.nan /\ ~b.nan /\ a.n < b.n

\* The value a comparator's result counts as in Array.prototype.sort:
\* NaN counts as +0.
JsSub(a, b) == IF a.nan \/ b.nan THEN NaN ELSE Num(a.n - b.n)
SortValue(v) == IF v.nan THEN 0 ELSE v.n

\* The comparators of lines 190 and 222, and of line 225.
\* Line 190 comparing the names by their UTF-16 code units ("B" before "a")
\* instead of by localeCompare.
byNameCodeUnits(a, b) ==
    LET CodeUnits == <<"B", "a", "c">>
    IN  RankIn(CodeUnits, a.name.s) - RankIn(CodeUnits, b.name.s)

byName(a, b) == localeCompare(a.name.s, b.name.s)

byResultName(a, b) == byName(a.manga, b.manga)

byReleaseDescending(a, b) == SortValue(JsSub(b.release, a.release))

\* The comparator named cmp applied to a and b.
Compare(cmp, a, b) ==
    CASE cmp = "byName" -> byName(a, b)
      [] cmp = "byResultName" -> byResultName(a, b)
      [] cmp = "byReleaseDescending" -> byReleaseDescending(a, b)

\* Whether cmp is a consistent comparator for the elements of q (ECMAScript,
\* Array.prototype.sort): only then is the sorted order defined.
Consistent(q, cmp) ==
    LET n == Len(q)
        m == [a \in 1..n |-> [b \in 1..n |-> Compare(cmp, q[a], q[b])]]
    IN  \A a, b \in 1..n :
            /\ m[a][a] = 0
            /\ (m[a][b] < 0) = (m[b][a] > 0)
            /\ \A c \in 1..n :
                  /\ (m[a][b] = 0 /\ m[b][c] = 0) => m[a][c] = 0
                  /\ (m[a][b] < 0 /\ m[b][c] < 0) => m[a][c] < 0
                  /\ (m[a][b] > 0 /\ m[b][c] > 0) => m[a][c] > 0

Reorderings(q) ==
    {[k \in 1..Len(q) |-> q[p[k]]] : p \in Permutations(1..Len(q))}

\* The stable sorted order of q under a consistent comparator: an element
\* comes after those that compare below it and those that compare equal to
\* it and stood before it.
StableSort(q, cmp) ==
    LET n == Len(q)
        before == [j \in 1..n |->
                     Cardinality({k \in 1..n :
                        LET v == Compare(cmp, q[k], q[j])
                        IN  v < 0 \/ (v = 0 /\ k < j)})]
    IN  [pos \in 1..n |-> q[CHOOSE j \in 1..n : before[j] = pos - 1]]

\* The orders Array.prototype.sort may leave q in: the stable sorted order
\* under a consistent comparator, an implementation-defined order otherwise.
SortOutcomes(q, cmp) ==
    IF Consistent(q, cmp) THEN {StableSort(q, cmp)} ELSE Reorderings(q)

\* The progress collections of the model: at most MaxLists lists of at
\* most MaxEntries entries each.
Entry(id, progress) == [id |-> id, progress |-> progress]

Entries == {Entry(id, p) : id \in {41, 42, 43}, p \in {1, 2}}

Lists == SeqsOf(Entries, MaxEntries)

Collections == SeqsOf(Lists, MaxLists)

RECURSIVE Flatten(_)
Flatten(lists) ==
    IF lists = <<>> THEN <<>> ELSE lists[1] \o Flatten(Tail(lists))

\* Line 211 falling back on the first result when none matches.
FindOrFirst(rs, id) ==
    IF \E k \in 1..Len(rs) : rs[k].manga.anilistId.n = id
    THEN CHOOSE k \in 1..Len(rs) :
            /\ rs[k].manga.anilistId.n = id
            /\ \A j \in 1..(k - 1) : rs[j].manga.anilistId.n # id
    ELSE IF rs = <<>> THEN 0 ELSE 1

\* results.find((x) => x.manga.anilistId === id), line 211: the index of
\* the first match, 0 for none.
Find(rs, id) ==
    IF \E k \in 1..Len(rs) : rs[k].manga.anilistId.n = id
    THEN CHOOSE k \in 1..Len(rs) :
            /\ rs[k].manga.anilistId.n = id
            /\ \A j \in 1..(k - 1) : rs[j].manga.anilistId.n # id
    ELSE 0

\* Line 213.
IsCompleted(progress, chapter) == JsGE(Num(progress), chapter)

\* Lines 208-217 over the entries in the order the loops visit them.
RECURSIVE Classify(_, _, _, _)
Classify(rs, entries, completed, behind) ==
    IF entries = <<>> THEN [completed |-> completed, behind |-> behind]
    ELSE LET media == entries[1]
             k == Find(rs, media.id)
         IN  IF k = 0 THEN Classify(rs, Tail(entries), completed, behind)
             ELSE IF IsCompleted(media.progress, rs[k].chapter)
                  THEN Classify(rs, Tail(entries), Append(completed, rs[k]), behind)
                  ELSE Classify(rs, Tail(entries), completed, Append(behind, rs[k]))

\* What ani.getUserManga() ends with: the collection, or an error of gql.
Fetched(lists) == [ok |-> TRUE, lists |-> lists, msg |-> ""]
FetchThrows(msg) == [ok |-> FALSE, lists |-> <<>>, msg |-> msg]

FetchOutcomes ==
    {Fetched(ls) : ls \in Collections}
    \cup {FetchThrows(m) : m \in {"Axios Error", "Axios Error: Unknown",
                                  "Unknown error."}}

\* A console line and a network call.
Line(kind, names, chapter) == [kind |-> kind, names |-> names, chapter |-> chapter]
Call(kind, target) == [kind |-> kind, target |-> target]

RECURSIVE NamesOf(_)
NamesOf(rs) ==
    IF rs = <<>> THEN <<>> ELSE <<rs[1].manga.name.s>> \o NamesOf(Tail(rs))

RECURSIVE BehindLines(_)
BehindLines(rs) ==
    IF rs = <<>> THEN <<>>
    ELSE <<Line("behind", <<rs[1].manga.name.s>>, rs[1].chapter)>>
         \o BehindLines(Tail(rs))

----------------------------------------------------------------------------
(* The pipeline: main(), lines 187-229. *)

\* Lines 189-190 (getConfig, lines 174-179): config.json holds raw; read,
\* validate, sort by name.
GetConfig(raw) ==
    /\ mpc = "start"
    /\ IF isConfigData(raw)
       THEN \E sorted \in SortOutcomes(raw.manga, "byName") :
               /\ config' = [raw EXCEPT !.manga = sorted]
               /\ mpc' = "loop"
               /\ err' = ""
       ELSE /\ mpc' = "failed"
            /\ err' = "Invalid Config data."
            /\ config' = config
    /\ UNCHANGED <<i, results, mediaListCollection, completedResults,
                   behindResults, out, netlog, cvars, svars>>

\* Lines 194-198 up to the scraper's await: the loop test, the "Scraping"
\* line, scrapeManga's dispatch and the GET.
ScrapeStart ==
    /\ mpc = "loop"
    /\ i < Len(config.manga)
    /\ LET target == config.manga[i + 1]
       IN  /\ out' = Append(out, Line("scraping", <<target.name.s>>, NaN))
           /\ IF Dispatches(target)
              THEN /\ netlog' = Append(netlog, Call("GET", target.siteId.s))
                   /\ mpc' = "scraping"
                   /\ err' = err
              ELSE /\ netlog' = netlog
                   /\ mpc' = "failed"
                   /\ err' = "Unknown provider."
    /\ UNCHANGED <<config, i, results, mediaListCollection,
                   completedResults, behindResults, cvars, svars>>

\* Lines 198-199 with a failed scrape skipped instead of thrown.
ScrapeDoneSkipping(page) ==
    /\ mpc = "scraping"
    /\ LET target == config.manga[i + 1]
           res == scrapeManga(target, page)
       IN  /\ results' = IF res.ok THEN Append(results, res.result) ELSE results
           /\ i' = i + 1
           /\ mpc' = "loop"
           /\ err' = err
    /\ UNCHANGED <<config, mediaListCollection, completedResults,
                   behindResults, out, netlog, cvars, svars>>

\* The GET of the scraper ends with page: the rest of the scraper, and
\* lines 198-199.
ScrapeDone(page) ==
    /\ mpc = "scraping"
    /\ LET target == config.manga[i + 1]
           res == scrapeManga(target, page)
       IN  IF res.ok
           THEN /\ results' = Append(results, res.result)
                /\ i' = i + 1
                /\ mpc' = "loop"
                /\ err' = err
           ELSE /\ mpc' = "failed"
                /\ err' = res.msg
                /\ UNCHANGED <<results, i>>
    /\ UNCHANGED <<config, mediaListCollection, completedResults,
                   behindResults, out, netlog, cvars, svars>>

\* Lines 203-207 up to the await: the loop is over, the "Getting Anilist
\* data..." line, and getUserManga's request for userName.
StartFetch ==
    /\ mpc = "loop"
    /\ i >= Len(config.manga)
    /\ out' = Append(out, Line("getting", <<>>, NaN))
    /\ netlog' = Append(netlog, Call("POST", userName))
    /\ mpc' = "fetching"
    /\ UNCHANGED <<config, i, results, mediaListCollection,
                   completedResults, behindResults, err, cvars, svars>>

\* getUserManga ends with outcome: lines 207-228, to the end of main.
FetchDone(outcome) ==
    /\ mpc = "fetching"
    /\ IF outcome.ok
       THEN LET cls == Classify(results, Flatten(outcome.lists), <<>>, <<>>)
            IN  \E completed \in SortOutcomes(cls.completed, "byResultName"),
                   behind \in SortOutcomes(cls.behind, "byReleaseDescending") :
                   /\ mediaListCollection' = outcome.lists
                   /\ completedResults' = completed
                   /\ behindResults' = behind
                   /\ out' = out
                             \o <<Line("separator", <<>>, NaN),
                                  Line("caughtUp", NamesOf(completed),
                                       Num(Len(completed)))>>
                             \o BehindLines(behind)
                   /\ mpc' = "done"
                   /\ err' = err
       ELSE /\ mpc' = "failed"
            /\ err' = outcome.msg
            /\ UNCHANGED <<mediaListCollection, completedResults,
                           behindResults, out>>
    /\ UNCHANGED <<config, i, results, netlog, cvars, svars>>

TickSteps == {TIME_BUFFER \div 4}

\* The constructor, lines 285-291: LAST_CALL = Date.now().
InitGql ==
    /\ now = 0
    /\ LAST_CALL = 0
    /\ callers = {1}
    /\ calls = [c \in callers |-> IdleCall]
    /\ requests = <<>>
    /\ artifact = 0
    /\ ncalls = 0
    /\ mpc = "off"
    /\ scrapes = <<>>
    /\ config = NoConfig
    /\ i = 0
    /\ results = <<>>
    /\ mediaListCollection = <<>>
    /\ completedResults = <<>>
    /\ behindResults = <<>>
    /\ out = <<>>
    /\ netlog = <<>>
    /\ err = ""

NextGql ==
    \/ \E c \in callers, q \in Queries, v \in VariablesIn : GqlCall(c, q, v)
    \/ \E c \in callers : GetUserMangaCall(c)
    \/ \E c \in callers : checkTimeBuffer(c)
    \/ \E c \in callers : Wake(c)
    \/ \E c \in callers : Send(c)
    \/ \E c \in callers, resp \in Responses : Respond(c, resp)
    \/ \E d \in TickSteps : Tick(d)
    \/ \E c \in callers : TickToTimer(c)

SpecGql == InitGql /\ [][NextGql]_vars

\* Two callers share the client and make one gql call each: the two calls
\* may be in flight at once, interleaved at their awaits (lines 305, 312,
\* 316, 334).
InitGqlShared ==
    /\ now = 0
    /\ LAST_CALL = 0
    /\ callers = {1, 2}
    /\ calls = [c \in callers |-> IdleCall]
    /\ requests = <<>>
    /\ artifact = 0
    /\ ncalls = 0
    /\ mpc = "off"
    /\ scrapes = <<>>
    /\ config = NoConfig
    /\ i = 0
    /\ results = <<>>
    /\ mediaListCollection = <<>>
    /\ completedResults = <<>>
    /\ behindResults = <<>>
    /\ out = <<>>
    /\ netlog = <<>>
    /\ err = ""

\* What the requests of the shared client end with.
ResponsesShared ==
    { Resp("ok", 200, NoHeader, "d1"),
      Resp("http", 429, NoHeader, ""),
      Resp("http", 429, StringHeader(<<"1">>), "") }

NextGqlShared ==
    \/ \E c \in callers : calls[c].pc = "idle" /\ GqlCall(c, "q1", Undefined)
    \/ \E c \in callers : checkTimeBuffer(c)
    \/ \E c \in callers : Wake(c)
    \/ \E c \in callers : Send(c)
    \/ \E c \in callers, resp \in ResponsesShared : Respond(c, resp)
    \/ Tick(TIME_BUFFER \div 2)
    \/ \E c \in callers : TickToTimer(c)

SpecGqlShared == InitGqlShared /\ [][NextGqlShared]_vars

\* main() is about to run on some config.json; the client of line 183 is
\* constructed and idle.
Init ==
    /\ now = 0
    /\ LAST_CALL = 0
    /\ callers = {1}
    /\ calls = [c \in callers |-> IdleCall]
    /\ requests = <<>>
    /\ artifact = 0
    /\ ncalls = 0
    /\ mpc = "start"
    /\ scrapes = <<>>
    /\ config = NoConfig
    /\ i = 0
    /\ results = <<>>
    /\ mediaListCollection = <<>>
    /\ completedResults = <<>>
    /\ behindResults = <<>>
    /\ out = <<>>
    /\ netlog = <<>>
    /\ err = ""

Next ==
    \/ \E raw \in RawConfigs : GetConfig(raw)
    \/ ScrapeStart
    \/ /\ mpc = "scraping"
       /\ \E page \in PagesOf(config.manga[i + 1].provider.s) : ScrapeDone(page)
    \/ StartFetch
    \/ \E outcome \in FetchOutcomes : FetchDone(outcome)

Spec == Init /\ [][Next]_vars

----------------------------------------------------------------------------
(* scrapeManga, lines 168-172, under a caller that hands it any series, the *)
(* ones getConfig would reject included.                                   *)

\* Series with a provider that is not one of the two, or not a string.
Unrecognized ==
    { RawManga(JStr("d"), JNum(44), JStr("s4"), JStr("webtoon")),
      RawManga(JStr("e"), JNum(45), JStr("s5"), JNum(1)) }

Series == Catalog \cup Unrecognized

\* A call of scrapeManga: waiting for its GET, or ended with res.
\* page: what its GET came back with, once it has.
NoPage == Page(FALSE, 0, "", <<>>, FALSE, "")

ScrapeCall(manga, pc, gets, page, res) ==
    [manga |-> manga, pc |-> pc, gets |-> gets, page |-> page, res |-> res]

\* scrapeManga(manga) up to the scraper's await, or to the throw of line 171.
ScrapeMangaCall(manga) ==
    /\ Len(scrapes) < MaxScrapes
    /\ \A k \in 1..Len(scrapes) : scrapes[k].pc = "ended"
    /\ scrapes' = Append(scrapes,
          IF Dispatches(manga)
          THEN ScrapeCall(manga, "get", 1, NoPage, ScrapeThrows(""))
          ELSE ScrapeCall(manga, "ended", 0, NoPage,
                          ScrapeThrows("Unknown provider.")))
    /\ UNCHANGED <<cvars, mvars>>

\* The GET ends with page: the rest of the scraper.
ScrapeMangaEnd(page) ==
    /\ scrapes # <<>>
    /\ scrapes[Len(scrapes)].pc = "get"
    /\ scrapes' = [scrapes EXCEPT ![Len(scrapes)] =
          ScrapeCall(@.manga, "ended", @.gets, page,
                     scrapeManga(@.manga, page))]
    /\ UNCHANGED <<cvars, mvars>>

InitScrape == InitGql

NextScrape ==
    \/ \E manga \in Series : ScrapeMangaCall(manga)
    \/ /\ scrapes # <<>>
       /\ \E page \in PagesOf(scrapes[Len(scrapes)].manga.provider.s) :
             ScrapeMangaEnd(page)

SpecScrape == InitScrape /\ [][NextScrape]_vars

----------------------------------------------------------------------------
(* The client's properties, checked under SpecGql. *)

Is429(resp) == resp.kind = "http" /\ resp.status = 429

\* A retry-after header that is a numeric string: one or more decimal digits.
IsNumericHeader(hdr) ==
    /\ hdr.present /\ hdr.isString
    /\ hdr.text # <<>>
    /\ \A j \in 1..Len(hdr.text) : IsDigit(hdr.text[j])

\* C1: any two consecutive HTTP requests the client issues, retransmissions
\* after a 429 included, are at least TIME_BUFFER ms apart.
C1_MinSpacing ==
    \A k \in 1..(Len(requests) - 1) :
        requests[k + 1].t - requests[k].t >= TIME_BUFFER

\* Three requests: a retransmission issued exactly TIME_BUFFER after the
\* request that got the 429, then the first request of the next call.
C1_Witness ==
    /\ Len(requests) = 3
    /\ requests[2].callNo = requests[1].callNo
    /\ Is429(requests[2].after)
    /\ requests[2].t - requests[1].t = TIME_BUFFER
    /\ requests[3].callNo # requests[2].callNo

\* C2: after a 429 whose retry-after header is the numeric string n, the
\* retransmission is issued no earlier than n seconds (n * 1000 ms) after
\* the 429 was received, for every n >= 0.
C2_HonoursRetryAfter ==
    \A k \in 1..Len(requests) :
        LET r == requests[k]
        IN  (Is429(r.after) /\ IsNumericHeader(r.after.retryAfter))
            => (r.t - r.afterAt) \div 1000 >= DecVal(r.after.retryAfter.text)

\* C3: a 429 with no retry-after header does not fail the call: no
\* retry-after wait is added, the request is sent again, and the call ends
\* as its last request ends.
C3_NoHeaderRetransmits ==
    /\ \A c \in callers :
          (Is429(calls[c].lastResp) /\ ~calls[c].lastResp.retryAfter.present)
          => /\ calls[c].pc \in {"check", "bufSleep", "ready", "inflight"}
             /\ calls[c].retrySleep = NoSleep
             /\ calls[c].outcome = NoOutcome
    /\ \A k \in 1..Len(requests) :
          (Is429(requests[k].after) /\ ~requests[k].after.retryAfter.present)
          => /\ requests[k].retrySleep = NoSleep
             /\ requests[k].attempt > 1
    /\ \A c \in callers :
          (calls[c].pc \in {"returned", "failed"} /\ calls[c].n429 > 0)
          => /\ calls[c].endAt = calls[c].respAt
             /\ (calls[c].outcome.kind = "ok") = (calls[c].lastResp.kind = "ok")
             /\ calls[c].outcome.data = calls[c].lastResp.data
             /\ calls[c].lastResp.kind = "http"
                   => calls[c].outcome.status = calls[c].lastResp.status

\* A call that got a header-less 429, was retransmitted TIME_BUFFER after
\* the first request and returned the retransmission's data.
C3_Witness ==
    \E c \in callers, k \in 1..Len(requests) :
        /\ calls[c].pc = "returned"
        /\ requests[k].callNo = calls[c].callNo
        /\ requests[k].attempt = 2
        /\ Is429(requests[k].after) /\ ~requests[k].after.retryAfter.present
        /\ requests[k].t - requests[k - 1].t = TIME_BUFFER
        /\ calls[c].outcome = Returned("d2")

\* C4: there is no ceiling on the retries.  A call whose first k requests
\* get 429 and whose (k+1)-th succeeds has issued exactly k+1 requests and
\* returns that response; a call never fails on a 429.
C4_NoRetryCeiling ==
    \A c \in callers :
        LET call == calls[c]
            mine == {k \in 1..Len(requests) : requests[k].callNo = call.callNo}
        IN  /\ call.pc = "returned"
                => /\ call.endSent = call.n429 + 1
                   /\ Cardinality(mine) = call.n429 + 1
                   /\ call.lastResp.kind = "ok"
                   /\ call.outcome = Returned(call.lastResp.data)
            /\ call.pc = "failed" => ~Is429(call.lastResp)
            /\ Is429(call.lastResp) => call.pc \notin {"returned", "failed"}

\* Two 429s, then success on the third request.
C4_Witness ==
    \E c \in callers :
        /\ calls[c].pc = "returned"
        /\ calls[c].n429 = 2
        /\ calls[c].endSent = 3

\* C5: every request of a call, the first and every retransmission, carries
\* the query and the variables the call was made with (an omitted variables
\* argument being the empty object).
C5_SamePayload ==
    \A k \in 1..Len(requests) :
        LET r == requests[k]
        IN  /\ r.query = r.origQuery
            /\ r.variables = IF r.origVariables.def THEN r.origVariables
                             ELSE Obj({})
            /\ \A j \in 1..Len(requests) :
                  requests[j].callNo = r.callNo
                  => /\ requests[j].query = r.query
                     /\ requests[j].variables = r.variables

\* The third request of a call made with variables, after two 429s.
C5_Witness ==
    \E k \in 1..Len(requests) :
        /\ requests[k].attempt = 3
        /\ requests[k].origVariables.def
        /\ requests[k].origVariables.fields # {}

\* C6: an HTTP error status other than 429 fails the call at once with an
\* error carrying that status: no wait, no further request.
C6_OtherStatusFails ==
    \A c \in callers :
        LET call == calls[c]
        IN  (call.lastResp.kind = "http" /\ call.lastResp.status # 429)
            => /\ call.pc = "failed"
               /\ call.outcome = Thrown("Axios Error", call.lastResp.status)
               /\ call.endAt = call.respAt
               /\ call.endSent = call.sent
               /\ \A k \in 1..Len(requests) :
                     requests[k].callNo = call.callNo
                     => requests[k].t <= call.respAt

\* A call failed with status 500 on its second request, and has sent
\* nothing since although the clock has moved on.
C6_Witness ==
    \E c \in callers :
        /\ calls[c].pc = "failed"
        /\ calls[c].lastResp.status = 500
        /\ calls[c].sent = 2
        /\ now >= calls[c].respAt + TIME_BUFFER

----------------------------------------------------------------------------
(* The pipeline's properties, checked under Spec. *)

Count(q, x) == Cardinality({k \in 1..Len(q) : q[k] = x})

\* The progress records of the fetched collection that match result r.
Matching(r) ==
    LET es == Flatten(mediaListCollection)
    IN  {es[k] : k \in {j \in 1..Len(es) : es[j].id = r.manga.anilistId.n}}

ReportLines == {k \in 1..Len(out) : out[k].kind \in {"caughtUp", "behind"}}

Posts == {k \in 1..Len(netlog) : netlog[k].kind = "POST"}
Gets == {k \in 1..Len(netlog) : netlog[k].kind = "GET"}

\* C8: whatever lists and entries the service returns, every scraped series
\* with a matching progress record is once in caughtUp or once in behind,
\* never in both: in caughtUp iff progress >= chapter, in behind iff
\* progress < chapter.
C8_Partition ==
    mpc = "done" =>
        \A k \in 1..Len(results) :
            LET r == results[k]
            IN  \A e \in Matching(r) :
                    /\ Count(completedResults, r) + Count(behindResults, r) = 1
                    /\ (Count(completedResults, r) = 1)
                          = JsGE(Num(e.progress), r.chapter)
                    /\ (Count(behindResults, r) = 1)
                          = JsLT(Num(e.progress), r.chapter)

\* C9: in the report caughtUp is in ascending order of name and behind in
\* descending order of release time (no entry is older than a later one).
C9_ReportSorted ==
    mpc = "done" =>
        /\ \A j, k \in 1..Len(completedResults) :
              j < k => RankIn(Collation, completedResults[j].manga.name.s)
                          <= RankIn(Collation, completedResults[k].manga.name.s)
        /\ \A j, k \in 1..Len(behindResults) :
              j < k => ~JsLT(behindResults[j].release, behindResults[k].release)
        /\ \E k \in 1..Len(out) :
              /\ out[k] = Line("caughtUp", NamesOf(completedResults),
                               Num(Len(completedResults)))
              /\ SubSeq(out, k + 1, Len(out)) = BehindLines(behindResults)

\* C10: a failed scrape or a failed progress fetch ends the run there: no
\* series is skipped and none is scraped after a failure, the progress
\* service is asked only once every scrape has succeeded, and a run that
\* failed has emitted no caught-up line and no behind line.
C10_AbortsOnFailure ==
    /\ mpc \in {"loop", "scraping", "fetching", "done"}
          => /\ err = ""
             /\ Len(results) = i
             /\ \A k \in 1..i : results[k].manga = config.manga[k]
    /\ Cardinality(Gets) = IF mpc = "scraping" \/ (mpc = "failed" /\ Gets # {} /\ Posts = {})
                           THEN Len(results) + 1 ELSE Len(results)
    /\ \A k \in Gets : netlog[k].target = config.manga[k].siteId.s
    /\ Posts # {} => /\ Len(results) = Len(config.manga)
                     /\ Cardinality(Posts) = 1
                     /\ \A k \in Gets : \A p \in Posts : k < p
    /\ ReportLines # {} => (mpc = "done" /\ Len(results) = Len(config.manga))
    /\ mpc = "failed" => /\ err # ""
                         /\ ReportLines = {}
                         /\ completedResults = <<>> /\ behindResults = <<>>

\* The second of three scrapes failed: one result, two GETs, no POST, the
\* third series never fetched.
C10_Witness ==
    /\ mpc = "failed"
    /\ err = "Couldn't find chapters."
    /\ Len(config.manga) = 3
    /\ Len(results) = 1
    /\ Cardinality(Gets) = 2
    /\ Posts = {}

\* The "Scraping" lines written so far, in order.
ScrapingLines == SelectSeq(out, LAMBDA l : l.kind = "scraping")

\* C11: the series are scraped one at a time in ascending order of name
\* (the n-th scrape is that of the n-th series of the sorted config, and is
\* over before the next begins); the progress is fetched only after the
\* last scrape is over, and getUserManga is called once in a run.
C11_FixedOrder ==
    /\ \A j, k \in 1..Len(ScrapingLines) :
          j < k => RankIn(Collation, ScrapingLines[j].names[1])
                      <= RankIn(Collation, ScrapingLines[k].names[1])
    /\ \A k \in 1..Len(ScrapingLines) :
          ScrapingLines[k].names[1] = config.manga[k].name.s
    /\ Len(ScrapingLines) = Cardinality(Gets)
    /\ Cardinality(Gets) - Len(results) \in {0, 1}
    /\ mpc = "loop" => Cardinality(Gets) = Len(results)
    /\ \A p \in Posts :
          /\ Len(results) = Len(config.manga)
          /\ Cardinality(Gets) = Len(config.manga)
          /\ \A g \in Gets : g < p
    /\ Cardinality(Posts) <= 1
    /\ mpc \in {"fetching", "done"} => Cardinality(Posts) = 1

\* A finished run over three series: three scrapes, then the one fetch.
C11_Witness ==
    /\ mpc = "done"
    /\ Len(results) = 3
    /\ Cardinality(Gets) = 3
    /\ netlog[4].kind = "POST"
    /\ Len(netlog) = 4

\* The results the report names: those of caughtUp and of behind.
Reported ==
    {completedResults[k] : k \in 1..Len(completedResults)}
    \cup {behindResults[k] : k \in 1..Len(behindResults)}

\* C12: a scraped series whose anilistId matches no entry of the fetched
\* collection is in neither caughtUp nor behind, and the report names only
\* series scraped in this run: an entry with no scraped series adds nothing.
C12_UnmatchedDropped ==
    mpc = "done" =>
        /\ \A k \in 1..Len(results) :
              Matching(results[k]) = {}
              => /\ Count(completedResults, results[k]) = 0
                 /\ Count(behindResults, results[k]) = 0
        /\ \A r \in Reported :
              /\ \E k \in 1..Len(results) : results[k] = r
              /\ Matching(r) # {}
        /\ \A k \in ReportLines :
              \A n \in 1..Len(out[k].names) :
                  \E r \in Reported : r.manga.name.s = out[k].names[n]

\* A finished run in which one scraped series is matched and reported, one
\* is matched by no entry, and one entry matches no scraped series.
C12_Witness ==
    /\ mpc = "done"
    /\ Len(results) = 2
    /\ \E k \in 1..2 : Matching(results[k]) = {}
    /\ Reported # {}
    /\ \E e \in {Flatten(mediaListCollection)[k] :
                      k \in 1..Len(Flatten(mediaListCollection))} :
          \A k \in 1..2 : results[k].manga.anilistId.n # e.id

Recognized(manga) ==
    manga.provider.type = "string" /\ manga.provider.s \in {"viz", "mangadex"}

\* The schema of a configuration: a string user identifier, manga an array,
\* every entry with a string name, a numeric anilistId, a non-empty string
\* siteId and one of the two providers.
MatchesSchema(c) ==
    /\ c.anilistUsername.type = "string"
    /\ c.mangaIsArray
    /\ \A k \in 1..Len(c.manga) :
          /\ c.manga[k].name.type = "string"
          /\ c.manga[k].anilistId.type = "number"
          /\ c.manga[k].siteId.type = "string" /\ c.manga[k].siteId.s # ""
          /\ Recognized(c.manga[k])

\* C14: a configuration that does not match the schema is rejected with the
\* configuration error before any series is scraped and before any network
\* request: a run goes past getConfig only with a configuration that
\* matches, and a run rejected there has scraped and requested nothing.
C14_SchemaEnforced ==
    /\ (mpc \in {"loop", "scraping", "fetching", "done"}
           \/ out # <<>> \/ netlog # <<>> \/ results # <<>>)
          => (config # NoConfig /\ MatchesSchema(config))
    /\ (mpc = "failed" /\ err = "Invalid Config data.")
          => (out = <<>> /\ netlog = <<>> /\ results = <<>> /\ config = NoConfig)

\* C15: a scrape fails or returns a result whose chapter is a non-negative
\* integer; a listing with no digits in the chapter text (viz) or a chapter
\* that is no number (mangadex) fails the scrape, so no result with a NaN
\* chapter is among those main classifies.
C15_ChapterIsNumber ==
    /\ \A k \in 1..Len(results) :
          ~results[k].chapter.nan /\ results[k].chapter.n >= 0
    /\ \A r \in Reported : ~r.chapter.nan

\* C18: the progress request of a run names the user of the loaded
\* configuration: its userName is config.anilistUsername.
C18_QueriesConfiguredUser ==
    \A p \in Posts : netlog[p].target = config.anilistUsername.s

----------------------------------------------------------------------------
(* The scrapers' properties, stated for SpecScrape. *)

\* C13: scrapeManga of a series whose provider is neither of the two fails
\* with the unknown-provider error, and has made no network call when it
\* does; no other series fails with that error.
C13_UnknownProvider ==
    \A k \in 1..Len(scrapes) :
        LET c == scrapes[k]
        IN  /\ ~Recognized(c.manga)
               => /\ c.pc = "ended"
                  /\ ~c.res.ok
                  /\ c.res.msg = "Unknown provider."
                  /\ c.gets = 0
            /\ (c.pc = "ended" /\ c.res.msg = "Unknown provider.")
               => ~Recognized(c.manga)

\* A scrape that made its GET and returned, then the call for a series of
\* provider "webtoon".
C13_Witness ==
    /\ Len(scrapes) = 2
    /\ scrapes[1].res.ok /\ scrapes[1].gets = 1
    /\ scrapes[2].manga.provider.s = "webtoon"
    /\ scrapes[2].res.msg = "Unknown provider."

EmptyListing(page) == page.fetched /\ page.count = 0

\* C16: a scrape whose page has no chapter anchor, or whose feed has no
\* chapter, fails with the scrape error, returns no result and has read
\* neither release date, chapter number nor URL.
C16_EmptyListingFails ==
    \A k \in 1..Len(scrapes) :
        LET c == scrapes[k]
        IN  (c.pc = "ended" /\ Recognized(c.manga) /\ EmptyListing(c.page))
            => /\ ~c.res.ok
               /\ c.res.msg = "Couldn't find chapters."
               /\ c.res.result = NoResult
               /\ c.res.parsed = {}

\* A viz scrape and a mangadex scrape, both of an empty listing.
C16_Witness ==
    /\ Len(scrapes) = 2
    /\ scrapes[1].manga.provider.s = "viz"
    /\ scrapes[2].manga.provider.s = "mangadex"
    /\ \A k \in 1..2 :
          /\ scrapes[k].pc = "ended"
          /\ EmptyListing(scrapes[k].page)
          /\ scrapes[k].res.msg = "Couldn't find chapters."

----------------------------------------------------------------------------
(* The shared client's properties, stated for SpecGqlShared. *)

\* C17: with two gql calls in flight on one client the minimum spacing is
\* not kept (the state of C17_Witness is reached), and it is lost in this
\* way only: two consecutive requests less than TIME_BUFFER apart belong to
\* different calls, and the later one passed its spacing check against a
\* LAST_CALL read before the earlier one was issued.
C17_SpacingLostOnlyByOverlap ==
    \A k \in 1..(Len(requests) - 1) :
        requests[k + 1].t - requests[k].t < TIME_BUFFER
        => /\ requests[k + 1].callNo # requests[k].callNo
           /\ requests[k + 1].seenLast < requests[k].t

\* Both calls passed the check against the same LAST_CALL and issued their
\* first requests at the same instant.
C17_Witness ==
    \E k \in 1..(Len(requests) - 1) :
        /\ requests[k].callNo # requests[k + 1].callNo
        /\ requests[k].attempt = 1 /\ requests[k + 1].attempt = 1
        /\ requests[k].seenLast = requests[k + 1].seenLast
        /\ requests[k + 1].t - requests[k].t < TIME_BUFFER

====
